---------------------------- MODULE Spec2Model ----------------------------
(***************************************************************************)
(* Schema binding and validated models of qiskit: qiskit/validation/base.py *)
(* (OneTypeOf, BaseSchema, _BindSchema, bind_schema), the older binder of   *)
(* qiskit/models/base.py (ModelSchema, BindSchema), and the schemas and     *)
(* models of test/python/test_models.py that exercise them.                 *)
(*                                                                          *)
(* Python values are records [t, s, d]: t is the type tag, s the scalar     *)
(* payload (or the class name of an object), d the attribute / item map.    *)
(* The result of a call is a record [err, val]: err is "" on a normal       *)
(* return and the name of the raised exception otherwise.                   *)
(***************************************************************************)
EXTENDS Naturals, Sequences, FiniteSets, TLC

VARIABLES
    model_cls,  \* schema class -> its own `model_cls` class attribute
    schema,     \* model class  -> class of the instance stored in `schema`
    methods,    \* model class  -> API attributes installed on the class
    wraps,      \* model class  -> _validate_after_init layers around __init__
    last,       \* record of the last client call and what it returned
    pc,         \* concurrent binders: thread -> position inside __call__
    lock,       \* concurrent binders: holder of the caller's lock, 0 if free
    serialized, \* concurrent binders: whether the callers use the lock
    phase,      \* one load call: state of the Schema.load state machine
    call,       \* one load call: its input, intermediate data and result
    log,        \* one load call: hooks and constructors invoked so far
    poly        \* a OneTypeOf field and the result of its last selection

classVars == <<model_cls, schema, methods, wraps>>
concVars  == <<pc, lock, serialized>>
loadVars  == <<phase, call, log>>
vars == <<model_cls, schema, methods, wraps, last, pc, lock, serialized,
          phase, call, log, poly>>
\* What the calls on classes and instances leave alone.
restVars == <<pc, lock, serialized, phase, call, log, poly>>

----------------------------------------------------------------------------
(* Python values *)

NoAttrs == [k \in {} |-> k]
NoneV == [t |-> "None", s |-> "", d |-> NoAttrs]
Str(x) == [t |-> "str", s |-> x, d |-> NoAttrs]
Int(x) == [t |-> "int", s |-> x, d |-> NoAttrs]
DateV(x) == [t |-> "date", s |-> x, d |-> NoAttrs]
Dict(f) == [t |-> "dict", s |-> "", d |-> f]
Obj(c, f) == [t |-> "obj", s |-> c, d |-> f]

Ok(v) == [err |-> "", val |-> v]
Raise(e) == [err |-> e, val |-> NoneV]

\* SimpleNamespace.__eq__ compares the two __dict__s, whatever the classes;
\* dicts compare item by item; scalars compare by type and value.
RECURSIVE PyEq(_, _)
PyEq(a, b) ==
    IF a.t = b.t /\ a.t \in {"obj", "dict"}
    THEN /\ DOMAIN a.d = DOMAIN b.d
         /\ \A k \in DOMAIN a.d : PyEq(a.d[k], b.d[k])
    ELSE a = b

----------------------------------------------------------------------------
(* Schema and model classes *)

RootSchema == "BaseSchema"
UserSchemas == {"PersonSchema", "BookSchema", "_DummySchema", "_SchemaCopy"}
SchemaClasses == {RootSchema} \cup UserSchemas
Models == {"Person", "Book", "_DummyModel", "_AnotherModel"}
Absent == "absent"

\* The base class a schema class is declared from.
Parent(s) ==
    IF s = "_SchemaCopy" THEN "_DummySchema" ELSE RootSchema

\* Declared fields of a schema class, the inherited ones included.
PersonFields == [name |-> [kind |-> "String", required |-> TRUE, nested |-> ""]]
BookFields ==
    [title  |-> [kind |-> "String", required |-> TRUE,  nested |-> ""],
     date   |-> [kind |-> "Date",   required |-> FALSE, nested |-> ""],
     author |-> [kind |-> "Nested", required |-> TRUE,  nested |-> "PersonSchema"]]
Fields(s) ==
    CASE s = "PersonSchema" -> PersonFields
      [] s = "BookSchema" -> BookFields
      [] OTHER -> NoAttrs

\* Attribute lookup on a schema class along its MRO; mc maps each class to
\* the entry of its own __dict__.
RECURSIVE Lookup(_, _)
Lookup(mc, s) ==
    IF mc[s] # Absent THEN mc[s]
    ELSE IF s = RootSchema THEN Absent
    ELSE Lookup(mc, Parent(s))

\* `self.model_cls` of a schema instance of class s.
ModelCls(s) == Lookup(model_cls, s)

\* Names that bind_schema installs on a model class.
ValidationAPI == {"_validate", "to_dict", "from_dict"}
ModelsAPI == {"to_dict", "from_dict"}

\* The classes as declared, before any bind: BaseSchema.model_cls is
\* SimpleNamespace, the schema subclasses and the models define nothing.
UnboundClasses ==
    [model_cls |-> [s \in SchemaClasses |->
                      IF s = RootSchema THEN "SimpleNamespace" ELSE Absent],
     schema |-> [m \in Models |-> Absent],
     methods |-> [m \in Models |-> {}],
     wraps |-> [m \in Models |-> 0]]

InitClasses ==
    /\ model_cls = UnboundClasses.model_cls
    /\ schema = UnboundClasses.schema
    /\ methods = UnboundClasses.methods
    /\ wraps = UnboundClasses.wraps

----------------------------------------------------------------------------
(* The schema engine: dump, load and validate of a BaseSchema, with its    *)
(* post_dump / post_load hooks, and the methods bind_schema installs.      *)

IsoDates == {"2018-01-01"}

\* set(original_data.__dict__) - set(valid_data), copied with no processing.
DumpAdditionalData(valid_data, original_data) ==
    [k \in DOMAIN valid_data \cup DOMAIN original_data.d |->
        IF k \in DOMAIN valid_data THEN valid_data[k] ELSE original_data.d[k]]

\* set(original_data) - set(valid_data), copied with no processing.
LoadAdditionalData(valid_data, original_data) ==
    [k \in DOMAIN valid_data \cup DOMAIN original_data |->
        IF k \in DOMAIN valid_data THEN valid_data[k] ELSE original_data[k]]

\* Whether __init__ was wrapped by qiskit.validation.base (it calls
\* self._validate()) rather than by qiskit.models.base (it validates inline).
CallsValidate(cls) == "_validate" \in methods[cls]

RECURSIVE Dump(_, _), Serialize(_, _), Load(_, _, _), Deserialize(_, _),
          Construct(_, _), ToDict(_), ValidateInstance(_)

\* Field.serialize of one declared field present on the object.
Serialize(fd, v) ==
    IF v.t = "None" THEN Ok(NoneV)
    ELSE CASE fd.kind = "String" -> Ok(Str(v.s))
           [] fd.kind = "Date" ->
                IF v.t = "date" THEN Ok(Str(v.s)) ELSE Raise("ValidationError")
           [] fd.kind = "Nested" -> Dump(fd.nested, v)

\* Schema.dump: the declared fields present on the object are serialized,
\* then the post_dump hook adds the undeclared attributes.
Dump(s, obj) ==
    IF obj.t # "obj" THEN Raise("AttributeError")
    ELSE LET present == DOMAIN Fields(s) \cap DOMAIN obj.d
             ser == [f \in present |-> Serialize(Fields(s)[f], obj.d[f])]
             errs == {ser[f].err : f \in present} \ {""}
         IN  IF errs \ {"ValidationError"} # {}
             THEN Raise(CHOOSE e \in errs \ {"ValidationError"} : TRUE)
             ELSE IF errs # {} THEN Raise("ValidationError")
             ELSE Ok(Dict(DumpAdditionalData([f \in present |-> ser[f].val], obj)))

\* Field.deserialize of one declared field present in the raw map.
Deserialize(fd, v) ==
    IF v.t = "None" THEN Raise("ValidationError")
    ELSE CASE fd.kind = "String" ->
                IF v.t = "str" THEN Ok(v) ELSE Raise("ValidationError")
           [] fd.kind = "Date" ->
                IF v.t = "str" /\ v.s \in IsoDates
                THEN Ok(DateV(v.s)) ELSE Raise("ValidationError")
           [] fd.kind = "Nested" -> Load(fd.nested, v, TRUE)

\* The declared fields of a raw map, validated: [err, val] with val the
\* valid_data dict.
ValidateFields(s, raw) ==
    IF raw.t # "dict" THEN Raise("ValidationError")
    ELSE LET present == DOMAIN Fields(s) \cap DOMAIN raw.d
             des == [f \in present |-> Deserialize(Fields(s)[f], raw.d[f])]
             errs == {des[f].err : f \in present} \ {""}
             missing == {f \in DOMAIN Fields(s) \ DOMAIN raw.d : Fields(s)[f].required}
         IN  IF errs \ {"ValidationError"} # {}
             THEN Raise(CHOOSE e \in errs \ {"ValidationError"} : TRUE)
             ELSE IF errs # {} \/ missing # {} THEN Raise("ValidationError")
             ELSE Ok(Dict([f \in present |-> des[f].val]))

\* Variant: make_model runs before load_additional_data.
PostLoadHooks_ModelFirst == <<"make_model", "load_additional_data">>

\* The post_load hooks, in the order marshmallow runs them.
PostLoadHooks == <<"load_additional_data", "make_model">>

\* BaseSchema.make_model: self.model_cls(**data).
MakeModel(s, data) == Construct(ModelCls(s), data)

\* Schema.load (postprocess) and the load step of Schema.validate (not).
Load(s, raw, postprocess) ==
    LET valid == ValidateFields(s, raw)
    IN  IF valid.err # "" \/ ~postprocess THEN valid
        ELSE MakeModel(s, LoadAdditionalData(valid.val.d, raw.d))

\* instance.to_dict(): an instance attribute shadows the class attribute.
ToDict(inst) ==
    IF "to_dict" \in DOMAIN inst.d THEN Raise("TypeError")
    ELSE IF inst.s \notin Models \/ "to_dict" \notin methods[inst.s]
    THEN Raise("AttributeError")
    ELSE IF "schema" \in DOMAIN inst.d THEN Raise("AttributeError")
    ELSE Dump(schema[inst.s], inst)

\* instance.schema.validate(instance.to_dict()), raising on errors.
ValidateInstance(inst) ==
    IF "schema" \in DOMAIN inst.d THEN Raise("AttributeError")
    ELSE LET data == ToDict(inst)
         IN  IF data.err # "" THEN data
             ELSE LET v == Load(schema[inst.s], data.val, FALSE)
                  IN  IF v.err # "" THEN Raise(v.err) ELSE Ok(NoneV)

\* instance._validate()
Validate(inst) ==
    IF "_validate" \in DOMAIN inst.d THEN Raise("TypeError")
    ELSE IF inst.s \notin Models \/ "_validate" \notin methods[inst.s]
    THEN Raise("AttributeError")
    ELSE ValidateInstance(inst)

\* cls(**kwargs): SimpleNamespace.__init__, then, when __init__ was wrapped
\* by _validate_after_init, the validation of the new instance.
Construct(cls, kwargs) ==
    LET inst == Obj(cls, kwargs)
    IN  IF cls \notin Models THEN Ok(inst)
        ELSE IF wraps[cls] = 0 THEN Ok(inst)
        ELSE IF "self" \in DOMAIN kwargs THEN Raise("TypeError")
        ELSE LET v == IF CallsValidate(cls) THEN Validate(inst)
                      ELSE ValidateInstance(inst)
             IN  IF v.err # "" THEN Raise(v.err) ELSE Ok(inst)

\* cls.from_dict(dct)
FromDict(cls, dct) ==
    IF "from_dict" \notin methods[cls] THEN Raise("AttributeError")
    ELSE Load(schema[cls], dct, TRUE)

----------------------------------------------------------------------------
(* bind_schema of qiskit.validation.base *)

ClassState == [model_cls |-> model_cls, schema |-> schema,
               methods |-> methods, wraps |-> wraps]

\* Variant: no check before binding, as in qiskit.models.base.
AlreadyBound_Unchecked(cs, s) == FALSE

\* Variant: getattr(schema_cls, 'model_cls', None), which sees the parents'.
AlreadyBound_Inherited(cs, s) == Lookup(cs.model_cls, s) # Absent

\* `self._schema_cls.__dict__.get('model_cls', None) is not None`
AlreadyBound(cs, s) == cs.model_cls[s] # Absent

\* Variant: the assignment lands on the parent class of the schema.
AssignModelCls_OnParent(mc, s, m) == [mc EXCEPT ![Parent(s)] = m]

\* `self._schema_cls.model_cls = model_cls`
AssignModelCls(mc, s, m) == [mc EXCEPT ![s] = m]

\* `model_cls.schema = self._schema_cls()` and the four assignments after it.
Install(cs, s, m) ==
    [model_cls |-> cs.model_cls,
     schema    |-> [cs.schema EXCEPT ![m] = s],
     methods   |-> [cs.methods EXCEPT ![m] = @ \cup ValidationAPI],
     wraps     |-> [cs.wraps EXCEPT ![m] = @ + 1]]

\* Variant: model_cls is assigned on the parent class of the schema.
Augment_OnParent(cs, s, m) ==
    [model_cls |-> [cs.model_cls EXCEPT ![Parent(s)] = m],
     schema    |-> [cs.schema EXCEPT ![m] = s],
     methods   |-> [cs.methods EXCEPT ![m] = @ \cup ValidationAPI],
     wraps     |-> [cs.wraps EXCEPT ![m] = @ + 1]]

\* The assignments of _BindSchema.__call__ once the check has passed.
Augment(cs, s, m) ==
    Install([cs EXCEPT !.model_cls = AssignModelCls(cs.model_cls, s, m)], s, m)

\* bind_schema(s)(m): [err, cs], the exception raised and the class state.
BindSchemaCall(cs, s, m) ==
    IF AlreadyBound(cs, s) THEN [err |-> "ValueError", cs |-> cs]
    ELSE [err |-> "", cs |-> Augment(cs, s, m)]

SetClasses(cs) ==
    /\ model_cls' = cs.model_cls
    /\ schema' = cs.schema
    /\ methods' = cs.methods
    /\ wraps' = cs.wraps

Record(op, s, m, arg, r, prev) ==
    [op |-> op, schema |-> s, cls |-> m, arg |-> arg,
     err |-> r.err, res |-> r.val, prev |-> prev]

NoCall == Record("none", "", "", NoneV, Ok(NoneV), NoneV)

\* @bind_schema(s) class m(BaseModel)
Bind(s, m) ==
    LET r == BindSchemaCall(ClassState, s, m)
    IN  /\ SetClasses(r.cs)
        /\ last' = Record("bind", s, m, NoneV, [err |-> r.err, val |-> NoneV], NoneV)
        /\ UNCHANGED restVars

----------------------------------------------------------------------------
(* Client calls on model classes and on the instances they return *)

\* m(**kwargs)
ConstructOp(m, kwargs) ==
    /\ last' = Record("construct", "", m, Dict(kwargs), Construct(m, kwargs), NoneV)
    /\ UNCHANGED <<classVars, restVars>>

\* m.from_dict(dct) on a raw map the client supplies
FromDictOp(m, dct) ==
    /\ last' = Record("from_dict", "", m, dct, FromDict(m, dct), NoneV)
    /\ UNCHANGED <<classVars, restVars>>

\* instance.to_dict() on the instance the last call returned; prev keeps the
\* raw map the instance was loaded from, if it was.
ToDictOp ==
    /\ last.op \in {"construct", "from_dict"}
    /\ last.err = ""
    /\ last' = Record("to_dict", "", last.res.s, last.res, ToDict(last.res),
                      IF last.op = "from_dict" THEN last.arg ELSE NoneV)
    /\ UNCHANGED <<classVars, restVars>>

\* type(instance).from_dict(instance.to_dict()): the dict the last to_dict
\* returned is loaded back; prev keeps the instance it was dumped from.
FromDictBackOp ==
    /\ last.op = "to_dict"
    /\ last.err = ""
    /\ last' = Record("from_dict", "", last.cls, last.res,
                      FromDict(last.cls, last.res), last.arg)
    /\ UNCHANGED <<classVars, restVars>>

\* instance._validate() on the instance the last call returned
ValidateOp ==
    /\ last.op \in {"construct", "from_dict"}
    /\ last.err = ""
    /\ last' = Record("_validate", "", last.res.s, last.res,
                      Validate(last.res), NoneV)
    /\ UNCHANGED <<classVars, restVars>>

----------------------------------------------------------------------------
(* Inputs of the client calls *)

With(f, k, v) == [x \in DOMAIN f \cup {k} |-> IF x = k THEN v ELSE f[x]]
Options(fs, k, vs) == fs \cup {With(f, k, v) : f \in fs, v \in vs}

\* Undeclared names: a free one, and the names a bound model class or the
\* wrapped constructor already uses.
ExtraNames == {"other", "to_dict", "schema", "_validate", "from_dict", "self"}

PersonInputs ==
    LET names == Options({NoAttrs}, "name", {Str("Foo"), Int("5"), NoneV})
    IN  names \cup {With(f, k, Str("bar")) : f \in names, k \in ExtraNames}

Foo == [name |-> Str("Foo")]
FooBar == [name |-> Str("Foo"), other |-> Str("bar")]
Authors == {Obj("Person", Foo), Obj("Person", FooBar),
            Obj("SimpleNamespace", [other |-> Str("bar")]),
            Dict(FooBar), Dict([other |-> Str("bar")])}

BookInputs ==
    LET titles == Options({NoAttrs}, "title", {Str("A Book")})
        dates == Options(titles, "date",
                         {DateV("2018-01-01"), Str("2018-01-01"), Str("tomorrow")})
        authors == Options(dates, "author", Authors)
    IN  Options(authors, "other", {Str("bar")})

Inputs == PersonInputs \cup BookInputs

\* The inputs of the tests that construct, load and dump Person and Book.
TestInputs == {NoAttrs, FooBar}

----------------------------------------------------------------------------
(* The other components at rest *)

NumThreads == 3
Threads == 1..NumThreads

NoLoad == [cls |-> "", raw |-> NoneV, valid |-> NoneV, data |-> NoneV,
           kwargs |-> NoneV, err |-> "", result |-> NoneV]
NoPoly == [made |-> FALSE, choices |-> NoAttrs,
           hinter |-> "None", dump_hinter |-> "None",
           _load_hinter |-> "None", _dump_hinter |-> "None",
           op |-> "none", arg |-> NoneV, err |-> "", res |-> ""]

ConcIdle ==
    /\ pc = [t \in Threads |-> [at |-> "idle", m |-> ""]]
    /\ lock = 0
    /\ serialized = TRUE
LoadIdle ==
    /\ phase = "Idle"
    /\ call = NoLoad
    /\ log = <<>>
PolyIdle == poly = NoPoly

----------------------------------------------------------------------------
(* Spec: schema definitions and models are bound in any order, and the     *)
(* models are constructed, loaded, dumped and validated in between.        *)

Init ==
    /\ InitClasses
    /\ last = NoCall
    /\ ConcIdle /\ LoadIdle /\ PolyIdle

Next ==
    \/ \E s \in SchemaClasses, m \in Models : Bind(s, m)
    \/ \E m \in Models, kw \in TestInputs : ConstructOp(m, kw)
    \/ \E m \in Models, kw \in TestInputs : FromDictOp(m, Dict(kw))
    \/ ToDictOp
    \/ FromDictBackOp
    \/ ValidateOp

Spec == Init /\ [][Next]_vars

----------------------------------------------------------------------------
(* SpecData: the classes as test_models.py leaves them (Person bound to    *)
(* PersonSchema, Book to BookSchema), under every input.                   *)

TestModuleClasses ==
    BindSchemaCall(BindSchemaCall(UnboundClasses, "PersonSchema", "Person").cs,
                   "BookSchema", "Book").cs

InitData ==
    /\ model_cls = TestModuleClasses.model_cls
    /\ schema = TestModuleClasses.schema
    /\ methods = TestModuleClasses.methods
    /\ wraps = TestModuleClasses.wraps
    /\ last = NoCall
    /\ ConcIdle /\ LoadIdle /\ PolyIdle

NextData ==
    \/ \E m \in Models, kw \in Inputs : ConstructOp(m, kw)
    \/ \E m \in Models, kw \in Inputs : FromDictOp(m, Dict(kw))
    \/ ToDictOp
    \/ FromDictBackOp
    \/ ValidateOp

SpecData == InitData /\ [][NextData]_vars

----------------------------------------------------------------------------
(* Claims on binding (Spec) *)

Bound(s) == model_cls[s] \in Models

\* C1: once a schema definition is bound to a model, every later bind of the
\* same definition to a model raises ValueError and leaves every class as it
\* was: the definition keeps its model, and the other model gets no schema,
\* no to_dict / from_dict / _validate and no wrapped constructor.
C1_SingleBinding ==
    [][\A s \in UserSchemas :
         Bound(s) =>
           /\ model_cls'[s] = model_cls[s]
           /\ \A b \in Models :
                Bind(s, b) => /\ last'.err = "ValueError"
                              /\ UNCHANGED classVars]_vars

C1_Witness ==
    /\ last.op = "bind" /\ last.err = "ValueError"
    /\ Bound(last.schema)
    /\ model_cls[last.schema] # last.cls
    /\ schema[last.cls] = Absent /\ methods[last.cls] = {} /\ wraps[last.cls] = 0

\* C2: a schema definition with no model_cls of its own is bound by the next
\* bind on it, whatever its parent's binding is, and the bind touches no other
\* definition: a definition and its subclass keep their own models.
C2_SubclassBindable ==
    [][\A s \in SchemaClasses, m \in Models :
         (model_cls[s] = Absent /\ Bind(s, m)) =>
           /\ last'.err = ""
           /\ model_cls'[s] = m
           /\ schema'[m] = s
           /\ \A o \in SchemaClasses \ {s} : model_cls'[o] = model_cls[o]]_vars

C2_Witness ==
    /\ last.op = "bind" /\ last.err = "" /\ last.schema = "_SchemaCopy"
    /\ Bound("_DummySchema") /\ Bound("_SchemaCopy")
    /\ model_cls["_DummySchema"] # model_cls["_SchemaCopy"]
    /\ schema[model_cls["_DummySchema"]] = "_DummySchema"
    /\ schema[model_cls["_SchemaCopy"]] = "_SchemaCopy"

\* C10: every bound model keeps a schema whose model_cls is that model, so
\* its from_dict returns its own instances; and construct, from_dict, to_dict
\* and _validate never change a class.
C10_BindingStable ==
    /\ [](\A m \in Models :
            schema[m] # Absent => ModelCls(schema[m]) = m)
    /\ []((last.op = "from_dict" /\ last.err = "") =>
            (last.res.t = "obj" /\ last.res.s = last.cls))
    /\ [][last'.op # "bind" => UNCHANGED classVars]_vars

C10_Witness ==
    /\ last.op = "from_dict" /\ last.err = "" /\ last.cls = "_AnotherModel"
    /\ schema["_AnotherModel"] = "_SchemaCopy"
    /\ model_cls["_DummySchema"] = "_DummyModel"
    /\ last.res.s = "_AnotherModel"

----------------------------------------------------------------------------
(* Claims on construction, load and dump (SpecData) *)

Declared(m) == Fields(schema[m])
Additional(m, f) == DOMAIN f \ DOMAIN Declared(m)

\* Names of undeclared attributes that hide what the wrapped constructor
\* looks up on the new instance (self._validate, self.schema, self.to_dict)
\* or that clash with its own first parameter.
Shadowing == {"_validate", "schema", "to_dict", "self"}

\* Every declared field given in kwargs holds a value of the field's kind.
WellTyped(m, kwargs) ==
    \A f \in DOMAIN Declared(m) \cap DOMAIN kwargs :
        LET v == kwargs[f]
        IN  CASE Declared(m)[f].kind = "String" -> v.t = "str"
              [] Declared(m)[f].kind = "Date" -> v.t = "date"
              [] Declared(m)[f].kind = "Nested" ->
                   v.t = "obj" /\ Validate(v).err = ""

Omits(m, kwargs) ==
    \E f \in DOMAIN Declared(m) : Declared(m)[f].required /\ f \notin DOMAIN kwargs

\* C3: from_dict(to_dict(m)) is a model equal to m, for every instance m that
\* a constructor or from_dict of a bound model returned.
C3_RoundTrip ==
    (last.op = "from_dict" /\ last.prev.t = "obj") =>
        (last.err = "" /\ PyEq(last.res, last.prev))

\* C3 with the declared String fields of m holding strings.
C3_RoundTripOfStrings ==
    (last.op = "from_dict" /\ last.prev.t = "obj"
        /\ WellTyped(last.cls, last.prev.d)) =>
        (last.err = "" /\ PyEq(last.res, last.prev))

\* C4: a constructor call that omits a required field raises ValidationError
\* and returns nothing, a call that supplies the required fields returns, and
\* whatever a constructor or from_dict returns validates.
C4_AllOrNothing ==
    /\ (last.op = "construct" /\ wraps[last.cls] > 0) =>
         /\ Omits(last.cls, last.arg.d) =>
              (last.err = "ValidationError" /\ last.res = NoneV)
         /\ (~Omits(last.cls, last.arg.d) /\ WellTyped(last.cls, last.arg.d)) =>
              last.err = ""
    /\ (last.op \in {"construct", "from_dict"} /\ last.err = ""
          /\ last.res.s \in Models /\ wraps[last.res.s] > 0) =>
         Validate(last.res).err = ""

\* C4 for the calls whose undeclared arguments shadow nothing and whose
\* nested arguments are objects.
C4_AllOrNothingUnshadowed ==
    (last.op = "construct" =>
        /\ DOMAIN last.arg.d \cap Shadowing = {}
        /\ \A k \in DOMAIN last.arg.d : last.arg.d[k].t # "dict")
        => C4_AllOrNothing

\* C5: from_dict of a raw map whose declared fields are valid returns a model
\* that exposes every undeclared key of the map with its value, and to_dict
\* of that model holds the key with the same value.
C5_Passthrough ==
    /\ (last.op = "from_dict" /\ "from_dict" \in methods[last.cls]
          /\ ValidateFields(schema[last.cls], last.arg).err = "") =>
         /\ last.err = ""
         /\ \A k \in Additional(last.cls, last.arg.d) :
              k \in DOMAIN last.res.d /\ last.res.d[k] = last.arg.d[k]
    /\ (last.op = "to_dict" /\ last.prev.t = "dict") =>
         /\ last.err = ""
         /\ \A k \in Additional(last.cls, last.prev.d) :
              k \in DOMAIN last.res.d /\ last.res.d[k] = last.prev.d[k]

\* C5 for the raw maps whose undeclared keys shadow nothing.
C5_PassthroughUnshadowed ==
    (last.op = "from_dict" => DOMAIN last.arg.d \cap Shadowing = {})
        => C5_Passthrough

----------------------------------------------------------------------------
(* SpecModels: bind_schema of qiskit.models.base. Its schema classes derive *)
(* from ModelSchema, whose body is that of BaseSchema (model_cls =          *)
(* SimpleNamespace and the same three hooks), so the classes and the engine *)
(* above stand for both; RootSchema is ModelSchema here.                    *)

\* Bind calls in one run.
MaxBinds == 3

NumBinds == wraps["Person"] + wraps["Book"] + wraps["_DummyModel"] + wraps["_AnotherModel"]

\* BindSchema.__call__: every call assigns, there is no check.
AugmentModels(cs, s, m) ==
    [model_cls |-> [cs.model_cls EXCEPT ![s] = m],
     schema    |-> [cs.schema EXCEPT ![m] = s],
     methods   |-> [cs.methods EXCEPT ![m] = @ \cup ModelsAPI],
     wraps     |-> [cs.wraps EXCEPT ![m] = @ + 1]]

\* @bind_schema(s) class m(BaseModel), with qiskit.models.base
BindModels(s, m) ==
    /\ NumBinds < MaxBinds
    /\ SetClasses(AugmentModels(ClassState, s, m))
    /\ last' = Record("bind", s, m, NoneV, Ok(NoneV), NoneV)
    /\ UNCHANGED restVars

NextModels ==
    \/ \E s \in SchemaClasses, m \in Models : BindModels(s, m)
    \/ \E m \in Models, kw \in {NoAttrs, Foo, FooBar} : ConstructOp(m, kw)
    \/ \E m \in Models, kw \in {NoAttrs, Foo, FooBar} : FromDictOp(m, Dict(kw))
    \/ ToDictOp
    \/ FromDictBackOp

SpecModels == Init /\ [][NextModels]_vars

\* C7: with the binder of qiskit.models.base too, no schema definition serves
\* two models, every bound model's schema makes that model, and from_dict of
\* a model returns an instance of that model.
C7_SingleBindingModels ==
    /\ \A a \in Models, b \in Models :
         (a # b /\ schema[a] # Absent) => schema[a] # schema[b]
    /\ \A m \in Models : schema[m] # Absent => ModelCls(schema[m]) = m
    /\ (last.op = "from_dict" /\ last.err = "") => last.res.s = last.cls

----------------------------------------------------------------------------
(* SpecConc: several threads decorate a model class with the same           *)
(* bind_schema(PersonSchema), each thread stepping through __call__; the    *)
(* callers either all take one lock around the call or none does.           *)

SharedSchema == "PersonSchema"

At(t, where) == pc' = [pc EXCEPT ![t].at = where]

\* A thread starts bind_schema(SharedSchema)(m).
CallBind(t, m) ==
    /\ pc[t].at = "idle"
    /\ pc' = [pc EXCEPT ![t] = [at |-> IF serialized THEN "acquire" ELSE "check",
                                m |-> m]]
    /\ UNCHANGED <<classVars, last, lock, serialized, loadVars, poly>>

\* The caller's lock around the call.
Acquire(t) ==
    /\ pc[t].at = "acquire"
    /\ lock = 0
    /\ lock' = t
    /\ At(t, "check")
    /\ UNCHANGED <<classVars, last, serialized, loadVars, poly>>

\* The already-bound check: raise, or go on to the assignments.
CheckBound(t) ==
    /\ pc[t].at = "check"
    /\ At(t, IF AlreadyBound(ClassState, SharedSchema) THEN "raised" ELSE "assign")
    /\ UNCHANGED <<classVars, last, lock, serialized, loadVars, poly>>

\* self._schema_cls.model_cls = model_cls
WriteBinding(t) ==
    /\ pc[t].at = "assign"
    /\ model_cls' = AssignModelCls(model_cls, SharedSchema, pc[t].m)
    /\ At(t, "install")
    /\ UNCHANGED <<schema, methods, wraps, last, lock, serialized, loadVars, poly>>

\* The assignments on the model class, and the return.
InstallAPI(t) ==
    /\ pc[t].at = "install"
    /\ SetClasses(Install(ClassState, SharedSchema, pc[t].m))
    /\ At(t, "returned")
    /\ UNCHANGED <<last, lock, serialized, loadVars, poly>>

\* The caller releases the lock after the call, returned or raised.
Release(t) ==
    /\ lock = t
    /\ pc[t].at \in {"returned", "raised"}
    /\ lock' = 0
    /\ At(t, IF pc[t].at = "returned" THEN "bound" ELSE "failed")
    /\ UNCHANGED <<classVars, last, serialized, loadVars, poly>>

InitConc ==
    /\ InitClasses
    /\ last = NoCall
    /\ pc = [t \in Threads |-> [at |-> "idle", m |-> ""]]
    /\ lock = 0
    /\ serialized \in BOOLEAN
    /\ LoadIdle /\ PolyIdle

NextConc ==
    \/ \E t \in Threads, m \in Models : CallBind(t, m)
    \/ \E t \in Threads : Acquire(t)
    \/ \E t \in Threads : CheckBound(t)
    \/ \E t \in Threads : WriteBinding(t)
    \/ \E t \in Threads : InstallAPI(t)
    \/ \E t \in Threads : Release(t)

SpecConc == InitConc /\ [][NextConc]_vars

\* The attempts that passed the check.
Succeeding == {t \in Threads : pc[t].at \in {"assign", "install", "returned", "bound"}}
Finished(t) == pc[t].at \in {"bound", "failed"} \/ (~serialized /\ pc[t].at \in {"returned", "raised"})

\* C8: when every call runs under the lock, at most one attempt passes the
\* check, and once it has written the binding the definition is bound to that
\* attempt's model, whatever the other attempts do.
C8_SerializedBindOnce ==
    serialized =>
        /\ Cardinality(Succeeding) <= 1
        /\ \A t \in Succeeding :
             pc[t].at # "assign" => model_cls[SharedSchema] = pc[t].m

C8_Witness ==
    /\ serialized
    /\ \A t \in Threads : Finished(t)
    /\ \E t \in Threads : pc[t].at = "bound" /\ model_cls[SharedSchema] = pc[t].m
    /\ \E t \in Threads : pc[t].at = "failed" /\ model_cls[SharedSchema] # pc[t].m

\* C8, second sentence: the same without the lock. TLC finds it violated: two
\* attempts pass the check before either writes.
C8_UnserializedBindOnce ==
    ~serialized => Cardinality(Succeeding) <= 1

----------------------------------------------------------------------------
(* SpecLoad: one from_dict call at a time on the bound Person and Book,     *)
(* stepping through schema.load: the declared fields, then each post_load   *)
(* hook in turn, then the return or the raise of _from_dict.                *)

\* m.from_dict(raw) is called.
StartLoad(m, raw) ==
    /\ phase = "Idle"
    /\ phase' = "Validating-Fields"
    /\ call' = [NoLoad EXCEPT !.cls = m, !.raw = raw]
    /\ log' = <<>>
    /\ UNCHANGED <<classVars, last, concVars, poly>>

\* The declared fields are deserialized and validated; nested schemas load
\* (and construct) their own models inside this step.
FieldsStep ==
    /\ phase = "Validating-Fields"
    /\ LET valid == ValidateFields(schema[call.cls], call.raw)
       IN  /\ call' = [call EXCEPT !.valid = valid.val, !.data = valid.val,
                                   !.err = valid.err]
           /\ phase' = IF valid.err # "" THEN "Failed" ELSE "Collecting-Unknown"
    /\ log' = Append(log, "validate_fields")
    /\ UNCHANGED <<classVars, last, concVars, poly>>

\* The next post_load hook runs on the data the previous one returned.
HookStep ==
    /\ phase \in {"Collecting-Unknown", "Invoking-Model-Hook"}
    /\ Len(log) <= Len(PostLoadHooks)
    /\ LET hook == PostLoadHooks[Len(log)]
           more == Len(log) < Len(PostLoadHooks)
       IN  /\ log' = Append(log, hook)
           /\ IF hook = "load_additional_data"
              THEN IF call.data.t # "dict"
                   THEN /\ call' = [call EXCEPT !.err = "TypeError"]
                        /\ phase' = "Failed"
                   ELSE /\ call' = [call EXCEPT !.data =
                               Dict(LoadAdditionalData(call.data.d, call.raw.d))]
                        /\ phase' = IF more THEN "Invoking-Model-Hook" ELSE "Loaded"
              ELSE LET r == MakeModel(schema[call.cls], call.data.d)
                   IN  /\ call' = [call EXCEPT !.kwargs = call.data,
                                               !.data = r.val, !.err = r.err]
                       /\ phase' = IF r.err # "" THEN "Failed"
                                   ELSE IF more THEN "Collecting-Unknown"
                                   ELSE "Loaded"
    /\ UNCHANGED <<classVars, last, concVars, poly>>

\* schema.load has ended: _from_dict returns the loaded data, or raises.
ReturnStep ==
    /\ phase \in {"Loaded", "Failed"}
    /\ phase' = IF phase = "Loaded" THEN "Done" ELSE "Error"
    /\ call' = [call EXCEPT !.result = IF phase = "Loaded" THEN call.data ELSE NoneV]
    /\ UNCHANGED <<classVars, last, concVars, poly, log>>

\* The client goes on to its next call.
NextCall ==
    /\ phase \in {"Done", "Error"}
    /\ phase' = "Idle"
    /\ call' = NoLoad
    /\ log' = <<>>
    /\ UNCHANGED <<classVars, last, concVars, poly>>

InitLoad ==
    /\ model_cls = TestModuleClasses.model_cls
    /\ schema = TestModuleClasses.schema
    /\ methods = TestModuleClasses.methods
    /\ wraps = TestModuleClasses.wraps
    /\ last = NoCall
    /\ ConcIdle /\ LoadIdle /\ PolyIdle

NextLoad ==
    \/ \E m \in {"Person", "Book"}, kw \in Inputs : StartLoad(m, Dict(kw))
    \/ FieldsStep
    \/ HookStep
    \/ ReturnStep
    \/ NextCall

SpecLoad == InitLoad /\ [][NextLoad]_vars

IsPrefix(a, b) == Len(a) <= Len(b) /\ \A i \in 1..Len(a) : a[i] = b[i]

\* C9: inside one load the declared fields are validated first, then the
\* unknown keys are collected, then the model constructor is invoked, once,
\* with the validated declared values plus the unknown keys of the raw map;
\* when a declared field fails, the constructor is not invoked and the call
\* returns nothing.
C9_LoadOrdering ==
    /\ IsPrefix(log, <<"validate_fields", "load_additional_data", "make_model">>)
    /\ (phase \in {"Failed", "Error"} /\ Len(log) = 1) =>
         (call.err = "ValidationError" /\ call.kwargs = NoneV /\ call.result = NoneV)
    /\ Len(log) = 3 =>
         /\ DOMAIN call.kwargs.d = DOMAIN call.valid.d \cup DOMAIN call.raw.d
         /\ \A k \in DOMAIN call.valid.d : call.kwargs.d[k] = call.valid.d[k]
         /\ \A k \in DOMAIN call.raw.d \ DOMAIN call.valid.d :
              call.kwargs.d[k] = call.raw.d[k]
    /\ call.result # NoneV =>
         /\ phase = "Done" /\ Len(log) = 3
         /\ call.result = Obj(call.cls, call.kwargs.d)

C9_Witness ==
    /\ phase = "Done" /\ call.cls = "Book"
    /\ call.result # NoneV
    /\ "other" \in DOMAIN call.result.d
    /\ call.result.d.author = Obj("Person", FooBar)

\* The steps of a load end as the load taken whole does.
LoadStepsAgree ==
    phase \in {"Done", "Error"} =>
        LET r == FromDict(call.cls, call.raw)
        IN  call.err = r.err /\ call.result = r.val

----------------------------------------------------------------------------
(* SpecPoly: a OneTypeOf field is made from a choice mapping and hinter     *)
(* functions, and selects schemas for raw maps and for objects.             *)

Tags == {"Book", "Album"}
SchemaOf(tag) == IF tag = "Book" THEN "BookSchema" ELSE "AlbumSchema"
ChoiceMaps == {[k \in K |-> SchemaOf(k)] : K \in SUBSET Tags}

\* The hinter functions of the OneTypeOf docstring, and no function.
Hinters == {"None", "load_book_or_album", "dump_book_or_album"}

\* hinter(data): [err, val] with val the tag.
Hint(hinter, data) ==
    CASE hinter = "None" -> [err |-> "TypeError", val |-> ""]
      [] hinter = "load_book_or_album" ->
           IF data.t # "dict" THEN [err |-> "TypeError", val |-> ""]
           ELSE [err |-> "", val |-> IF "author" \in DOMAIN data.d
                                     THEN "Book" ELSE "Album"]
      [] hinter = "dump_book_or_album" ->
           [err |-> "", val |-> IF data.t = "obj" THEN data.s ELSE data.t]

\* Variant: the dump hinter is ignored.
DumpHinter_LoadOnly(hinter, dump_hinter) == hinter

\* `dump_hinter or hinter`
DumpHinter(hinter, dump_hinter) ==
    IF dump_hinter # "None" THEN dump_hinter ELSE hinter

\* The two selectors: the hint, then the lookup in the choices; a KeyError
\* is turned into a ValidationError.
Selector(choices, hinter, data) ==
    LET hint == Hint(hinter, data)
    IN  IF hint.err # "" THEN [err |-> hint.err, val |-> ""]
        ELSE IF hint.val \notin DOMAIN choices
        THEN [err |-> "ValidationError", val |-> ""]
        ELSE [err |-> "", val |-> choices[hint.val]]

\* OneTypeOf(choices, hinter, dump_hinter)
NewOneTypeOf(choices, hinter, dump_hinter) ==
    /\ poly' = [NoPoly EXCEPT !.made = TRUE, !.choices = choices,
                  !.hinter = hinter, !.dump_hinter = dump_hinter,
                  !._load_hinter = hinter,
                  !._dump_hinter = DumpHinter(hinter, dump_hinter)]
    /\ UNCHANGED <<classVars, last, concVars, loadVars>>

\* field._deserialization_selector(data, _)
DeserializationSelector(data) ==
    /\ poly.made
    /\ LET r == Selector(poly.choices, poly._load_hinter, data)
       IN  poly' = [poly EXCEPT !.op = "load", !.arg = data,
                                !.err = r.err, !.res = r.val]
    /\ UNCHANGED <<classVars, last, concVars, loadVars>>

\* field._serialization_selector(data, _)
SerializationSelector(data) ==
    /\ poly.made
    /\ LET r == Selector(poly.choices, poly._dump_hinter, data)
       IN  poly' = [poly EXCEPT !.op = "dump", !.arg = data,
                                !.err = r.err, !.res = r.val]
    /\ UNCHANGED <<classVars, last, concVars, loadVars>>

RawValues == {Dict([title |-> Str("A Book"), author |-> Dict(Foo)]),
              Dict([title |-> Str("An Album")]), Dict(Foo)}
TypedValues == {Obj("Book", [title |-> Str("A Book")]),
                Obj("Album", [title |-> Str("An Album")]),
                Obj("Person", Foo)}

NextPoly ==
    \/ \E c \in ChoiceMaps, h \in Hinters, dh \in Hinters : NewOneTypeOf(c, h, dh)
    \/ \E d \in RawValues : DeserializationSelector(d)
    \/ \E o \in TypedValues : SerializationSelector(o)

SpecPoly == Init /\ [][NextPoly]_vars

\* The hinter a selection in the given direction has to apply.
HinterFor(op) ==
    IF op = "load" \/ poly.dump_hinter = "None" THEN poly.hinter
    ELSE poly.dump_hinter

Selected(err) ==
    (poly.op \in {"load", "dump"} /\ Hint(HinterFor(poly.op), poly.arg).err = "") =>
        LET tag == Hint(HinterFor(poly.op), poly.arg).val
        IN  /\ tag \in DOMAIN poly.choices =>
                 (poly.err = "" /\ poly.res = poly.choices[tag])
            /\ tag \notin DOMAIN poly.choices =>
                 (poly.err = err /\ poly.res = "")

\* C6 as claimed: a load applies the load hint to the raw map, a dump the
\* dump hint (the load hint when none was given) to the object; a tag of the
\* mapping selects its schema, and any other tag fails with
\* SchemaSelectionError and selects nothing.
C6_SelectionError == Selected("SchemaSelectionError")

\* C6 as amended: the same, the failure being a ValidationError.
C6_Selection == Selected("ValidationError")

C6_Witness ==
    /\ poly.op = "dump" /\ poly.dump_hinter = "dump_book_or_album"
    /\ poly.hinter = "load_book_or_album"
    /\ poly.arg = Obj("Person", Foo)
    /\ DOMAIN poly.choices = Tags
    /\ poly.err = "ValidationError" /\ poly.res = ""

============================================================================
